---- MODULE Spec2Model ----
(***************************************************************************)
(* Model of jules-scratch/verification/verify_discriminated_unions.py:     *)
(* a Playwright script that opens http://localhost:3004/, takes a          *)
(* screenshot, and three times selects an option on a <select> control and *)
(* takes another screenshot, then closes the browser.                      *)
(*                                                                         *)
(* The program counter pc is the source line of the statement that runs    *)
(* next.  The page served at localhost:3004 (site), the outcome of the     *)
(* calls that depend on the machine (launch, new_page, goto, screenshot,   *)
(* close) and the fate of a browser that is still open when the Playwright *)
(* driver is stopped belong to the environment and are chosen              *)
(* nondeterministically.  The outcome of select_option is decided by the   *)
(* page: the controls the selector matches and the options they offer.     *)
(***************************************************************************)
EXTENDS Integers, Sequences, FiniteSets

VARIABLES
    pc,          \* source line of the next statement; OffLine: the process has ended
    playwright,  \* "stopped" | "running": the sync_playwright() driver
    browser,     \* "none" | "open" | "closed": playwright.chromium.launch()'s browser
    page,        \* "none" | "blank" | "loaded": browser.new_page()'s page
    site,        \* the <select> controls of the page served at localhost:3004
    dom,         \* the <select> controls of the page as loaded in the browser
    fs,          \* the files under jules-scratch/verification/
    exc,         \* the exception in flight ("none": no exception)
    exitCode,    \* the process's exit status, Running while it runs
    attempted,   \* the source lines of run() attempted by this run, in order
    completed,   \* the source lines of run() that returned normally, in order
    written,     \* the paths this run has written, in order
    run,         \* which invocation of the script this is
    prevExit,    \* the exit status of the previous invocation (Running: none)
    prevFiles    \* the set of files the previous invocation left

vars == <<pc, playwright, browser, page, site, dom, fs, exc, exitCode,
          attempted, completed, written, run, prevExit, prevFiles>>

(***************************************************************************)
(* Bounds of the model.                                                    *)
(***************************************************************************)
\* the largest number of <select> controls on the served page
MaxControls == 3
\* the number of successive invocations of the script
MaxRuns == 2

(***************************************************************************)
(* The script's literals.                                                  *)
(***************************************************************************)
\* the statements of run(), by source line, in the written order
Script == <<4, 5, 6, 8, 11, 12, 15, 16, 19, 20, 22>>

\* the line of the with statement that starts the driver and calls run()
WithLine == 24
\* the line on which run(playwright) returns or raises, ending the with block
CallLine == 25
\* no line: the process has ended
OffLine == 0
\* exit status of a process that has not ended
Running == -1

Shot01 == "jules-scratch/verification/01_initial.png"
Shot02 == "jules-scratch/verification/02_auto_form_dog.png"
Shot03 == "jules-scratch/verification/03_field_example_b.png"
Shot04 == "jules-scratch/verification/04_select_example_member.png"

\* the screenshot paths in the order the script writes them
Paths == <<Shot01, Shot02, Shot03, Shot04>>

\* a path with no file; a file records the image and the invocation that wrote it
NoFile == [exists |-> FALSE, by |-> 0, shot |-> <<>>]

(***************************************************************************)
(* The page: a sequence of <select> controls in document order.  A control *)
(* has a name attribute, an aria-label attribute, its options in document  *)
(* order and its selected value (initially its first option).              *)
(***************************************************************************)
Names == {"type", ""}
Labels == {"type", "kind", ""}

\* options with every requested value, and with none of them
OptionLists ==
    { <<"", "dog", "b", "member">>,
      <<"", "cat", "a", "guest">> }

\* a control named "type" that shows "dog" before the script touches it
Preselected ==
    [name |-> "type", label |-> "", options |-> <<"dog", "cat">>, value |-> "dog"]

Controls ==
    { [name |-> n, label |-> l, options |-> o, value |-> o[1]] :
        n \in Names, l \in Labels, o \in OptionLists } \cup {Preselected}

RECURSIVE SeqsUpTo(_, _)
SeqsUpTo(S, n) ==
    IF n = 0 THEN { <<>> }
    ELSE LET shorter == SeqsUpTo(S, n - 1)
         IN  shorter \cup { Append(s, x) : s \in { t \in shorter : Len(t) = n - 1 }, x \in S }

Sites == SeqsUpTo(Controls, MaxControls)

Range(s) == { s[i] : i \in 1..Len(s) }

Min(S) == CHOOSE x \in S : \A y \in S : x <= y
Max(S) == CHOOSE x \in S : \A y \in S : x >= y

(***************************************************************************)
(* Locators and select_option.                                             *)
(***************************************************************************)
\* page.locator('select[<attr>="<val>"]'): the matching controls, by position
Locator(d, attr, val) == { i \in 1..Len(d) : d[i][attr] = val }

\* Resolve with .first, .last and strictness ignored: always the first match
ResolveFirst(m, pick) ==
    IF m = {} THEN [exc |-> "TimeoutNoElement", at |-> 0]
    ELSE [exc |-> "none", at |-> Min(m)]

\* The control a locator acts on: .first the first match, .last the last one,
\* and a bare locator (strict) its only match.  at = 0: no control.
Resolve(m, pick) ==
    IF m = {} THEN [exc |-> "TimeoutNoElement", at |-> 0]
    ELSE IF pick = "first" THEN [exc |-> "none", at |-> Min(m)]
    ELSE IF pick = "last" THEN [exc |-> "none", at |-> Max(m)]
    ELSE IF Cardinality(m) > 1 THEN [exc |-> "StrictModeViolation", at |-> 0]
    ELSE [exc |-> "none", at |-> Min(m)]

\* locator.select_option(v): selects v on the resolved control, or raises
SelectOption(d, m, pick, v) ==
    LET r == Resolve(m, pick)
    IN  IF r.exc # "none" THEN [exc |-> r.exc, dom |-> d]
        ELSE IF v \notin Range(d[r.at].options)
             THEN [exc |-> "TimeoutNoOption", dom |-> d]
        ELSE [exc |-> "none", dom |-> [d EXCEPT ![r.at].value = v]]

\* Capture of a page that never re-rendered: every control shows its first option
CaptureDefaults(d) == [i \in 1..Len(d) |-> d[i].options[1]]

\* page.screenshot(): the image shows each control's selected value
Capture(d) == [i \in 1..Len(d) |-> d[i].value]

\* WriteFile that creates the file and never writes the image into it
WriteFileEmpty(f, p, img, r) == [f EXCEPT ![p] = [exists |-> TRUE, by |-> r, shot |-> <<>>]]

\* WriteFile that leaves a file that is already there alone
WriteFileKeep(f, p, img, r) ==
    IF f[p].exists THEN f
    ELSE [f EXCEPT ![p] = [exists |-> TRUE, by |-> r, shot |-> img]]

\* page.screenshot(path=p) in invocation r: the file at p is created or replaced
WriteFile(f, p, img, r) == [f EXCEPT ![p] = [exists |-> TRUE, by |-> r, shot |-> img]]

\* the files present
Files(f) == { p \in DOMAIN f : f[p].exists }

(***************************************************************************)
(* Control flow of run(): statement k of Script runs when pc is its line.  *)
(***************************************************************************)
At(k) == pc = Script[k]

\* After that skips a statement
AfterSkip(k) == IF k + 1 < Len(Script) THEN Script[k + 2] ELSE CallLine

\* the line that runs after statement k returns
After(k) == IF k < Len(Script) THEN Script[k + 1] ELSE CallLine

\* statement k returns normally: the next statement of run() is next
Returns(k) ==
    /\ attempted' = Append(attempted, Script[k])
    /\ completed' = Append(completed, Script[k])
    /\ pc' = After(k)
    /\ exc' = "none"

\* Raises inside a try whose handler records the exception and goes on
Swallows(k, e) ==
    /\ attempted' = Append(attempted, Script[k])
    /\ completed' = completed
    /\ pc' = After(k)
    /\ exc' = e

\* statement k raises e: run() has no try, so the exception leaves run()
Raises(k, e) ==
    /\ attempted' = Append(attempted, Script[k])
    /\ completed' = completed
    /\ pc' = CallLine
    /\ exc' = e

(***************************************************************************)
(* Initial state: the script has not started; nothing has been written.    *)
(***************************************************************************)
Init ==
    /\ pc = WithLine
    /\ playwright = "stopped"
    /\ browser = "none"
    /\ page = "none"
    /\ site \in Sites
    /\ dom = <<>>
    /\ fs = [p \in Range(Paths) |-> NoFile]
    /\ exc = "none"
    /\ exitCode = Running
    /\ attempted = <<>>
    /\ completed = <<>>
    /\ written = <<>>
    /\ run = 1
    /\ prevExit = Running
    /\ prevFiles = {}

(***************************************************************************)
(* The statements.                                                         *)
(***************************************************************************)
\* line 24: with sync_playwright() as playwright: starts the driver
SyncPlaywrightEnter ==
    /\ pc = WithLine
    /\ playwright' = "running"
    /\ pc' = Script[1]
    /\ UNCHANGED <<browser, page, site, dom, fs, exc, exitCode, attempted,
                   completed, written, run, prevExit, prevFiles>>

\* line 4: browser = playwright.chromium.launch()
Launch ==
    /\ At(1)
    /\ \E ok \in BOOLEAN :
         IF ok THEN Returns(1) /\ browser' = "open"
               ELSE Raises(1, "LaunchError") /\ browser' = browser
    /\ UNCHANGED <<playwright, page, site, dom, fs, exitCode, written, run,
                   prevExit, prevFiles>>

\* line 5: page = browser.new_page()
NewPage ==
    /\ At(2)
    /\ \E ok \in BOOLEAN :
         IF ok THEN Returns(2) /\ page' = "blank"
               ELSE Raises(2, "PageError") /\ page' = page
    /\ UNCHANGED <<playwright, browser, site, dom, fs, exitCode, written, run,
                   prevExit, prevFiles>>

\* line 6: page.goto("http://localhost:3004/")
Goto ==
    /\ At(3)
    /\ \E reachable \in BOOLEAN :
         IF reachable THEN Returns(3) /\ page' = "loaded" /\ dom' = site
                      ELSE Raises(3, "NavigationError") /\ UNCHANGED <<page, dom>>
    /\ UNCHANGED <<playwright, browser, site, fs, exitCode, written, run,
                   prevExit, prevFiles>>

\* page.screenshot(path=p) as statement k
Screenshot(k, p) ==
    /\ At(k)
    /\ \E ok \in BOOLEAN :
         IF ok THEN /\ Returns(k)
                    /\ fs' = WriteFile(fs, p, Capture(dom), run)
                    /\ written' = Append(written, p)
               ELSE /\ Raises(k, "ScreenshotError")
                    /\ UNCHANGED <<fs, written>>
    /\ UNCHANGED <<playwright, browser, page, site, dom, exitCode, run,
                   prevExit, prevFiles>>

\* page.locator(...)[.first|.last].select_option(v) as statement k
Select(k, attr, val, pick, v) ==
    /\ At(k)
    /\ LET r == SelectOption(dom, Locator(dom, attr, val), pick, v)
       IN  IF r.exc = "none" THEN Returns(k) /\ dom' = r.dom
                             ELSE Raises(k, r.exc) /\ dom' = dom
    /\ UNCHANGED <<playwright, browser, page, site, fs, exitCode, written, run,
                   prevExit, prevFiles>>

\* line 8
Screenshot01 == Screenshot(4, Shot01)
\* line 11: page.locator('select[name="type"]').first.select_option("dog")
SelectDog == Select(5, "name", "type", "first", "dog")
\* line 12
Screenshot02 == Screenshot(6, Shot02)
\* line 15: page.locator('select[aria-label="kind"]').select_option("b")
SelectB == Select(7, "label", "kind", "strict", "b")
\* line 16
Screenshot03 == Screenshot(8, Shot03)
\* line 19: page.locator('select[aria-label="type"]').last.select_option("member")
SelectMember == Select(9, "label", "type", "last", "member")
\* line 20
Screenshot04 == Screenshot(10, Shot04)

\* line 22: browser.close()
Close ==
    /\ At(11)
    /\ \E ok \in BOOLEAN :
         IF ok THEN Returns(11) /\ browser' = "closed" /\ page' = "none"
               ELSE Raises(11, "CloseError") /\ UNCHANGED <<browser, page>>
    /\ UNCHANGED <<playwright, site, dom, fs, exitCode, written, run,
                   prevExit, prevFiles>>

\* ExitStatus of a script that reports success whatever happened
ExitStatusZero(e) == 0

\* the exit status of a process whose last exception is e
ExitStatus(e) == IF e = "none" THEN 0 ELSE 1

\* lines 24-25: run(playwright) has returned or raised; the with block stops the
\* driver and the process ends, with a traceback when an exception is in flight.
\* The script does nothing about a browser that is still open: whether stopping
\* the driver ends it is up to the driver.
SyncPlaywrightExit ==
    /\ pc = CallLine
    /\ playwright' = "stopped"
    /\ \E reaped \in BOOLEAN :
         browser' = IF browser = "open" /\ reaped THEN "closed" ELSE browser
    /\ exitCode' = ExitStatus(exc)
    /\ pc' = OffLine
    /\ UNCHANGED <<page, site, dom, fs, exc, attempted, completed, written, run,
                   prevExit, prevFiles>>

\* the script is invoked again: a new process, the same working directory
Restart ==
    /\ pc = OffLine
    /\ run < MaxRuns
    /\ run' = run + 1
    /\ prevExit' = exitCode
    /\ prevFiles' = Files(fs)
    /\ pc' = WithLine
    /\ browser' = "none"
    /\ page' = "none"
    /\ dom' = <<>>
    /\ exc' = "none"
    /\ exitCode' = Running
    /\ attempted' = <<>>
    /\ completed' = <<>>
    /\ written' = <<>>
    /\ UNCHANGED <<playwright, site, fs>>

Next ==
    \/ SyncPlaywrightEnter
    \/ Launch
    \/ NewPage
    \/ Goto
    \/ Screenshot01
    \/ SelectDog
    \/ Screenshot02
    \/ SelectB
    \/ Screenshot03
    \/ SelectMember
    \/ Screenshot04
    \/ Close
    \/ SyncPlaywrightExit
    \/ Restart

Spec == Init /\ [][Next]_vars

TypeOK ==
    /\ pc \in Range(Script) \cup {WithLine, CallLine, OffLine}
    /\ playwright \in {"stopped", "running"}
    /\ browser \in {"none", "open", "closed"}
    /\ page \in {"none", "blank", "loaded"}
    /\ site \in Sites
    /\ exitCode \in {Running, 0, 1}
    /\ run \in 1..MaxRuns

(***************************************************************************)
(* Vocabulary of the properties.                                           *)
(***************************************************************************)
IsPrefix(s, t) == Len(s) <= Len(t) /\ \A i \in 1..Len(s) : s[i] = t[i]

Last(s) == s[Len(s)]

\* the lines of the four page.screenshot calls and of the three select_option calls
ShotLines == <<8, 12, 16, 20>>
SelectLines == <<11, 15, 19>>

\* the run has left run(): by an exception or past its last statement
LeftRun == pc \in {CallLine, OffLine}

\* how many screenshot statements are among the lines in s
ShotsIn(s) == Cardinality(Range(s) \cap Range(ShotLines))

\* the controls the three select statements act on, on the page as served
FirstType == Min(Locator(site, "name", "type"))
OnlyKind == Min(Locator(site, "label", "kind"))
LastType == Max(Locator(site, "label", "type"))

\* what control i shows after the selections that precede screenshot n
ExpectedValue(n, i) ==
    IF n >= 4 /\ i = LastType THEN "member"
    ELSE IF n >= 3 /\ i = OnlyKind THEN "b"
    ELSE IF n >= 2 /\ i = FirstType THEN "dog"
    ELSE site[i].value

\* progress of one invocation: grows with every step it takes
Rank ==
    IF pc = WithLine THEN 0
    ELSE IF pc = CallLine THEN Len(Script) + 1
    ELSE IF pc = OffLine THEN Len(Script) + 2
    ELSE CHOOSE k \in 1..Len(Script) : Script[k] = pc

(***************************************************************************)
(* C1.  The statements of run() are attempted in the written order, one    *)
(* after the other: the lines attempted so far are an initial part of the  *)
(* script, a line is attempted only when every line before it has returned *)
(* normally, and the screenshots written are those of the screenshot lines *)
(* that have returned, in the order 01, 02, 03, 04.                        *)
(***************************************************************************)
C1_WrittenOrder ==
    /\ IsPrefix(attempted, Script)
    /\ IsPrefix(completed, attempted)
    /\ Len(attempted) <= Len(completed) + 1
    /\ IsPrefix(written, Paths)
    /\ Len(written) = ShotsIn(completed)
    /\ pc \in Range(Script) => Script[Len(completed) + 1] = pc

C1_Witness == pc = OffLine /\ completed = Script /\ browser = "closed"

(***************************************************************************)
(* C2.  After a successful run (exit status 0) the four screenshot files   *)
(* exist, each holding an image of the loaded page written by this run,    *)
(* and the run has written exactly these four paths, once each.            *)
(***************************************************************************)
C2_FourScreenshots ==
    (pc = OffLine /\ exitCode = 0) =>
        /\ written = Paths
        /\ Files(fs) = Range(Paths)
        /\ \A p \in Range(Paths) :
             /\ fs[p].by = run
             /\ fs[p].shot # <<>>
             /\ Len(fs[p].shot) = Len(site)

C2_Witness == pc = OffLine /\ exitCode = 0 /\ run = 1 /\ written = Paths

(***************************************************************************)
(* C3.  When page.goto fails the run ends with the error propagated: no    *)
(* screenshot statement is attempted, the run writes no file, and the      *)
(* process ends with a non-zero status.                                    *)
(***************************************************************************)
C3_UnreachableNoScreenshots ==
    exc = "NavigationError" =>
        /\ LeftRun
        /\ attempted = <<4, 5, 6>>
        /\ ShotsIn(attempted) = 0
        /\ written = <<>>
        /\ Files(fs) = prevFiles
        /\ pc = OffLine => exitCode = 1

C3_Witness == exc = "NavigationError" /\ pc = OffLine /\ exitCode = 1

(***************************************************************************)
(* C4.  When the option requested by select statement k (k = 1, 2, 3) is   *)
(* missing from its control, the run ends at that statement: it has        *)
(* written exactly the screenshots 01..0k and writes no later one.         *)
(***************************************************************************)
C4_MissingOptionStopsThere ==
    \A k \in 1..3 :
        (exc = "TimeoutNoOption" /\ Last(attempted) = SelectLines[k]) =>
            /\ LeftRun
            /\ written = SubSeq(Paths, 1, k)
            /\ \A i \in 1..k : fs[Paths[i]].exists /\ fs[Paths[i]].by = run
            /\ \A i \in (k + 1)..4 : fs[Paths[i]].by # run

C4_Witness ==
    /\ pc = OffLine
    /\ exc = "TimeoutNoOption"
    /\ Last(attempted) = SelectLines[3]
    /\ written = SubSeq(Paths, 1, 3)

(***************************************************************************)
(* C5.  Whenever the script has ended after launching a browser, the       *)
(* browser is closed, also when the run ended early on a failed action.    *)
(***************************************************************************)
C5_BrowserReleased ==
    (pc = OffLine /\ browser # "none") => browser = "closed"

(***************************************************************************)
(* C6.  Screenshot n shows exactly the selections made before it: every    *)
(* control shows what the page served, except that from screenshot 02 on   *)
(* the first control named type shows "dog", from 03 on the control        *)
(* labelled kind shows "b", and in 04 the last control labelled type shows *)
(* "member"; a later selection changes no other control.                   *)
(***************************************************************************)
C6_CumulativeSelections ==
    \A n \in 1..Len(written) :
        fs[written[n]].shot = [i \in 1..Len(site) |-> ExpectedValue(n, i)]

C6_Witness ==
    /\ pc = OffLine
    /\ exitCode = 0
    /\ Cardinality({FirstType, OnlyKind, LastType}) = 3
    /\ fs[Shot01].shot[FirstType] # "dog"
    /\ fs[Shot02].shot[FirstType] = "dog" /\ fs[Shot02].shot[OnlyKind] # "b"
    /\ fs[Shot03].shot[OnlyKind] = "b" /\ fs[Shot03].shot[LastType] # "member"
    /\ fs[Shot04].shot[FirstType] = "dog"
    /\ fs[Shot04].shot[OnlyKind] = "b"
    /\ fs[Shot04].shot[LastType] = "member"

(***************************************************************************)
(* C7.  The process exits with status 0 exactly when all eleven statements *)
(* of run() returned normally; a statement that fails leaves its exception *)
(* in flight out of run(), and the process then exits with status 1.       *)
(***************************************************************************)
C7_ExitStatus ==
    /\ Len(attempted) > Len(completed) => exc # "none" /\ LeftRun
    /\ pc = OffLine =>
         /\ exitCode \in {0, 1}
         /\ exitCode = 0 <=> completed = Script
         /\ exitCode = 1 <=> exc # "none"

C7_Witness ==
    pc = OffLine /\ exitCode = 1 /\ exc = "CloseError" /\ written = Paths

(***************************************************************************)
(* C8.  When the script is run again after a successful run and succeeds   *)
(* again, every one of the four files has been replaced by the second run  *)
(* and the set of files is the one the first run left.                     *)
(***************************************************************************)
C8_SecondRunOverwrites ==
    (pc = OffLine /\ run >= 2 /\ prevExit = 0 /\ exitCode = 0) =>
        /\ Files(fs) = prevFiles
        /\ Files(fs) = Range(Paths)
        /\ \A p \in Range(Paths) : fs[p].by = run

C8_Witness ==
    pc = OffLine /\ run = 2 /\ prevExit = 0 /\ exitCode = 0 /\ prevFiles = Range(Paths)

(***************************************************************************)
(* C9.  No retry: a run attempts each statement at most once and at most   *)
(* eleven in all; once a statement has failed the run has left run() and   *)
(* attempts nothing more (browser.close() on line 22 included); a run that *)
(* has ended either closed the browser after all eleven statements or      *)
(* failed; and every step of a run moves it forward, so a run ends.        *)
(***************************************************************************)
C9_StateOK ==
    /\ Cardinality(Range(attempted)) = Len(attempted)
    /\ Len(attempted) <= Len(Script)
    /\ exc # "none" =>
         /\ LeftRun
         /\ attempted = Append(completed, Last(attempted))
    /\ pc = OffLine =>
         \/ exc = "none" /\ completed = Script /\ browser = "closed"
         \/ exc # "none"
    /\ pc # OffLine => ENABLED Next

C9_StepOK ==
    run' = run =>
        /\ Rank' > Rank
        /\ exc # "none" => attempted' = attempted /\ exc' = exc

\* C9: no retry, nothing attempted after a failure, every run ends
C9_NoRetry == [](C9_StateOK) /\ [][C9_StepOK]_vars

C9_Witness ==
    /\ pc = OffLine
    /\ exc = "StrictModeViolation"
    /\ attempted = <<4, 5, 6, 8, 11, 12, 15>>
    /\ browser = "open"

(***************************************************************************)
(* C10.  Selector resolution.  A select statement fails when its selector  *)
(* matches no control.  With several matches, line 11 acts on the first    *)
(* control named type and line 19 on the last control labelled type, and   *)
(* neither fails for the number of matches; line 15 fails when more than   *)
(* one control is labelled kind.  A select statement that succeeds sets    *)
(* the requested value on the one control it resolved and leaves every     *)
(* other control as it was.                                                *)
(***************************************************************************)
\* a step of the select statement on line ln succeeded on control at with value v
Selected(at, v) ==
    /\ exc' = "none"
    /\ dom' = [dom EXCEPT ![at].value = v]

C10_SelectStep(ln, m, v) ==
    (pc = ln /\ attempted' # attempted) =>
        /\ m = {} => exc' = "TimeoutNoElement" /\ dom' = dom
        /\ exc' = "none" => m # {}
        /\ exc' # "none" => dom' = dom

C10_StepOK ==
    LET n == Locator(dom, "name", "type")
        k == Locator(dom, "label", "kind")
        t == Locator(dom, "label", "type")
    IN  /\ C10_SelectStep(11, n, "dog")
        /\ C10_SelectStep(15, k, "b")
        /\ C10_SelectStep(19, t, "member")
        /\ (pc = 11 /\ attempted' # attempted /\ n # {}) =>
             /\ exc' # "StrictModeViolation"
             /\ IF "dog" \in Range(dom[Min(n)].options)
                THEN Selected(Min(n), "dog") ELSE exc' = "TimeoutNoOption"
        /\ (pc = 15 /\ attempted' # attempted /\ k # {}) =>
             IF Cardinality(k) > 1 THEN exc' = "StrictModeViolation"
             ELSE IF "b" \in Range(dom[Min(k)].options)
                  THEN Selected(Min(k), "b") ELSE exc' = "TimeoutNoOption"
        /\ (pc = 19 /\ attempted' # attempted /\ t # {}) =>
             /\ exc' # "StrictModeViolation"
             /\ IF "member" \in Range(dom[Max(t)].options)
                THEN Selected(Max(t), "member") ELSE exc' = "TimeoutNoOption"

\* C10: every select step resolves its selector as stated and acts on one control
C10_SelectorResolution == [][C10_StepOK]_vars

C10_Witness ==
    /\ pc = 20
    /\ exc = "none"
    /\ Cardinality(Locator(dom, "name", "type")) >= 2
    /\ Cardinality(Locator(dom, "label", "type")) >= 2
    /\ dom[Min(Locator(dom, "name", "type"))].value = "dog"
    /\ dom[Max(Locator(dom, "label", "type"))].value = "member"
    /\ dom[Min(Locator(dom, "label", "type"))].value # "member"
    /\ dom[Max(Locator(dom, "name", "type"))].value # "dog"

====
